---- MODULE Spec2Model ----
(***************************************************************************)
(* A model of the balance-resolution engine of BitcoinBalanceTracker:      *)
(* BTCKeyChecker (src/btc_checker.py) - the provider strategy              *)
(* check_balance, the result sink (init_output_file, save_result_realtime) *)
(* and the scan loop process_keys driven by run.                           *)
(*                                                                         *)
(* The environment (input lines, provider responses, file-system           *)
(* failures) is drawn nondeterministically at the step that consumes it.   *)
(***************************************************************************)
EXTENDS Integers, Sequences, FiniteSets, TLC

(***************************************************************************)
(* Bounds of the model.                                                    *)
(***************************************************************************)
\* how many providers of the registry (a prefix, in registration order) exist
NumProviders == 2
\* the longest input file
MaxLines == 3
\* the most positive balances the environment reports in one run
MaxHits == 2
\* the longest line of text handed to the extractor, in characters
MaxChars == 6

(***************************************************************************)
(* Program constants.                                                      *)
(***************************************************************************)
\* "(i + 1) % 10 == 0": a progress update every 10 lines
ProgressEvery == 10

\* The registry's names in registration order (dict insertion order).
ApiNames ==
    << "blockchain", "blockcypher", "blockstream", "mempool", "blockchair",
       "bitaps", "btccom", "blockonomics", "coinbase", "cryptoid", "sochain",
       "btcexplorer" >>

\* self.api_functions: the registered providers, keys in registration order.
api_functions == SubSeq(ApiNames, 1, NumProviders)

ProviderIdx == 1..Len(api_functions)

\* The configured modes: auto, rotate, a registered name, or anything else.
ApiTypes == {"auto", "rotate", "nosuchapi"} \cup {api_functions[k] : k \in ProviderIdx}

(***************************************************************************)
(* Values.  An Optional[float] balance is a record: kind "none" is None,   *)
(* kind "value" carries the amount; a provider call can also raise.        *)
(***************************************************************************)
None == [kind |-> "none", value |-> 0]

Raise == [kind |-> "raise", value |-> 0]

Bal(b) == [kind |-> "value", value |-> b]

\* the amounts a provider can report
Balances == {0, 1}

\* What one provider function does for one address: raises (transport or
\* parse error), returns None (non-success status), or returns an amount.
Responses(canHit) ==
    {Raise, None} \cup {Bal(b) : b \in {x \in Balances : canHit \/ x = 0}}

\* Private keys: key 0 stands for a candidate privkey_to_pubkey rejects,
\* the others derive; the address of key k is k.
Keys == {0, 1}

Derives(key) == key # 0

\* An input line after strip(): empty, a comment, or text holding the key
\* candidates the extractor will try, in its order of trial.  A comment may
\* hold a key too ("# spare: <key>").
Lines ==
    { [text |-> "empty", cands |-> << >>], [text |-> "comment", cands |-> << >>],
      [text |-> "comment", cands |-> <<1>>] }
    \cup { [text |-> "text", cands |-> c] :
             c \in { << >>, <<0>>, <<1>>, <<0, 1>> } }

VARIABLES
    \* configuration, fixed at construction (__init__)
    api_type,            \* self.api_type
    delay,               \* self.delay
    progress_callback,   \* self.progress_callback: installed or not
    start_line,          \* self.start_line
    end_line,            \* self.end_line: [isNone, value]
    max_file_size_bytes, \* self.max_file_size_bytes, in rows
    \* the world
    input_file,          \* "ok", "missing" or "unreadable"
    nLines,              \* the number of lines of the input file
    files,               \* the output files: name -> [exists, rows]
    \* session state
    current_api_index,   \* self.current_api_index
    output_file,         \* self.output_file (a file name)
    current_file_index,  \* self.current_file_index
    results,             \* process_keys' local results list
    total_keys,          \* process_keys' local total_keys
    i,                   \* how many lines of lines_to_process are consumed
    pc,                  \* where run() is
    init_ok,             \* what init_output_file returned
    aborted,             \* the loop was left through "except Exception"
    \* observation of the last loop step and of the run so far
    step,                \* what the last per-line step did
    call,                \* the check_balance call of the last step
    callCount,           \* check_balance calls so far
    useCount,            \* provider invocations so far, per provider
    sleepCount,          \* time.sleep calls that returned
    lastCbAt,            \* processed_count of the latest callback (0: none)
    lastCb,              \* the counts the latest callback was called with
    finalCb,             \* a callback with processed_count = total_count occurred
    foundCbCount,        \* callbacks carrying found-key detail
    \* what surrounds the session
    status,              \* job_info['status'] of the web job that runs the session
    peer,                \* the sink state of a second session that runs concurrently
    text,                \* a line handed to extract_and_validate_private_key
    extraction,          \* what that call returned
    returned,            \* what run() logged as its summary and returned
    registered           \* the job is in running_jobs

config == << api_type, delay, progress_callback, start_line, end_line,
             max_file_size_bytes, input_file, nLines >>

sink == << files, output_file, current_file_index >>

observed == << step, call, callCount, useCount, sleepCount, lastCbAt, lastCb,
               finalCb, foundCbCount >>

others == << status, peer, text, extraction, returned, registered >>

vars == << config, sink, current_api_index, results, total_keys, i, pc,
           init_ok, aborted, observed, others >>

(***************************************************************************)
(* BalanceResolutionStrategy: check_balance.                               *)
(* A call invokes one provider at a time; after each answer it either      *)
(* returns a pair (balance, api_used) or goes on to another provider.      *)
(***************************************************************************)
\* the call goes on to the next provider
Continue ==
    [returns |-> FALSE, raised |-> FALSE, balance |-> None, api_used |-> "unknown"]

\* "return balance, api_name"
Return(balance, api_used) ==
    [returns |-> TRUE, raised |-> FALSE, balance |-> balance, api_used |-> api_used]

\* an exception leaves the enclosing block
Propagate ==
    [returns |-> TRUE, raised |-> TRUE, balance |-> None, api_used |-> "unknown"]

\* The position in the registry of the provider the call invokes next:
\* auto walks api_functions.items(), rotate takes the one under the cursor,
\* a registered name takes that provider, any other mode blockchain.info.
NextProvider(mode, index, invoked) ==
    IF mode = "auto" THEN Len(invoked) + 1
    ELSE IF mode = "rotate" THEN index + 1
    ELSE IF \E k \in ProviderIdx : api_functions[k] = mode
         THEN CHOOSE k \in ProviderIdx : api_functions[k] = mode
    ELSE 1

\* a variant of CursorAfter that counts on without wrapping around
CursorAfter_NoWrap(mode, index) ==
    IF mode = "rotate" THEN index + 1 ELSE index

\* a variant of CursorAfter that advances the cursor in every mode
CursorAfter_EveryMode(mode, index) == (index + 1) % Len(api_functions)

\* a variant of CursorAfter that never advances the cursor
CursorAfter_Stuck(mode, index) == index

\* rotate: "self.current_api_index = (self.current_api_index + 1) % len(...)",
\* done before the provider is called; no other mode touches the cursor
CursorAfter(mode, index) ==
    IF mode = "rotate" THEN (index + 1) % Len(api_functions) ELSE index

\* a variant of AutoBranch that reports the first provider's name whoever answered
AutoBranch_FirstName(k, response) ==
    IF response.kind = "value" THEN Return(response, api_functions[1])
    ELSE IF k < Len(api_functions) THEN Continue
    ELSE Return(None, "unknown")

\* a variant of AutoBranch that goes through every provider before it returns
AutoBranch_TriesAll(k, response) ==
    IF k < Len(api_functions) THEN Continue
    ELSE IF response.kind = "value" THEN Return(response, api_functions[k])
    ELSE Return(None, "unknown")

\* a variant of AutoBranch that returns a zero balance when every provider failed
AutoBranch_ExhaustedZero(k, response) ==
    IF response.kind = "value" THEN Return(response, api_functions[k])
    ELSE IF k < Len(api_functions) THEN Continue
    ELSE Return(Bal(0), "unknown")

\* auto: the first answer that is not None is returned with its provider's
\* name; an exception or None goes on, and after the last provider the call
\* returns (None, "unknown")
AutoBranch(k, response) ==
    IF response.kind = "value" THEN Return(response, api_functions[k])
    ELSE IF k < Len(api_functions) THEN Continue
    ELSE Return(None, "unknown")

\* a variant of RotateBranch that tries one more provider after a failure
RotateBranch_FallsBack(k, response) ==
    IF response.kind = "value" THEN Return(response, api_functions[k])
    ELSE IF Len(call.invoked) = 0 THEN Continue
    ELSE Return(None, "unknown")

\* rotate: the answer of the one provider, or (None, "unknown") if it raised
RotateBranch(k, response) ==
    IF response.kind = "raise" THEN Return(None, "unknown")
    ELSE Return(response, api_functions[k])

\* a variant of PinnedBranch that does not say which provider answered
PinnedBranch_Anonymous(mode, response) ==
    Return(IF response.kind = "raise" THEN None ELSE response, "unknown")

\* a registered name: "return balance, self.api_type"
PinnedBranch(mode, response) ==
    IF response.kind = "raise" THEN Return(None, "unknown")
    ELSE Return(response, mode)

\* a variant of UnknownBranch that reports the configured mode as the name
UnknownBranch_ReportsMode(response) ==
    IF response.kind = "raise" THEN Return(None, "unknown")
    ELSE Return(response, api_type)

\* any other mode: "return balance, "blockchain""
UnknownBranch(response) ==
    IF response.kind = "raise" THEN Return(None, "unknown")
    ELSE Return(response, "blockchain")

\* the if/elif chain inside the outer try, after provider k answered
CheckBalanceBody(mode, k, response) ==
    IF mode = "auto" THEN AutoBranch(k, response)
    ELSE IF mode = "rotate" THEN RotateBranch(k, response)
    ELSE IF \E j \in ProviderIdx : api_functions[j] = mode
         THEN PinnedBranch(mode, response)
    ELSE UnknownBranch(response)

\* the outer "except Exception": "return None, "unknown""
OuterExcept(r) == IF r.raised THEN Return(None, "unknown") ELSE r

\* a variant of check_balance without any exception handler
check_balance_Unguarded(mode, k, response) ==
    IF response.kind = "raise" THEN Propagate ELSE CheckBalanceBody(mode, k, response)

\* check_balance after provider k answered
check_balance(mode, k, response) == OuterExcept(CheckBalanceBody(mode, k, response))

(***************************************************************************)
(* The other checker module, src/attached_assets/btc_checker.py: its       *)
(* process_keys has the strategy inlined in the loop body, where a failed  *)
(* lookup is a "continue" and api_used a local that starts as "unknown".   *)
(***************************************************************************)
\* the loop body goes on to the next provider
InlinedContinue ==
    [decided |-> FALSE, skip |-> FALSE, balance |-> None, api_used |-> "unknown"]

\* the strategy is through with (balance, api_used)
InlinedResult(balance, api_used) ==
    [decided |-> TRUE, skip |-> FALSE, balance |-> balance, api_used |-> api_used]

\* "continue": the line is given up
InlinedSkip ==
    [decided |-> TRUE, skip |-> TRUE, balance |-> None, api_used |-> "unknown"]

\* the provider the inlined strategy invokes next, tried being how many
\* providers it has invoked for this line
InlinedNextProvider(mode, index, tried) ==
    IF mode = "auto" THEN tried + 1
    ELSE IF mode = "rotate" THEN index + 1
    ELSE IF \E k \in ProviderIdx : api_functions[k] = mode
         THEN CHOOSE k \in ProviderIdx : api_functions[k] = mode
    ELSE 1

\* "self.current_api_index = (self.current_api_index + 1) % len(...)"
InlinedCursorAfter(mode, index) ==
    IF mode = "rotate" THEN (index + 1) % Len(api_functions) ELSE index

\* the inlined if/elif chain after provider k answered
InlinedStrategy(mode, k, response) ==
    IF mode = "auto"
       THEN IF response.kind = "value" THEN InlinedResult(response, api_functions[k])
            ELSE IF k < Len(api_functions) THEN InlinedContinue
            ELSE InlinedSkip
    ELSE IF mode = "rotate"
       THEN IF response.kind = "raise" THEN InlinedSkip
            ELSE InlinedResult(response,
                     IF response.kind = "value" THEN api_functions[k] ELSE "unknown")
    ELSE IF \E j \in ProviderIdx : api_functions[j] = mode
       THEN IF response.kind = "raise" THEN InlinedSkip
            ELSE InlinedResult(response, mode)
    ELSE IF response.kind = "raise" THEN InlinedSkip
         ELSE InlinedResult(response, "blockchain")

\* the rest of the loop body: "if balance is None: continue", the record on
\* "balance > 0", then time.sleep
InlinedLine(t) ==
    LET absent == t.skip \/ t.balance.kind = "none"
    IN  [ends   |-> t.decided,
         record |-> t.decided /\ ~absent /\ t.balance.value > 0,
         sleeps |-> t.decided /\ ~absent]

(***************************************************************************)
(* ResultSink.  A file is [exists, rows]; its size is counted in rows (the *)
(* header is one row), and max_file_size_bytes is in the same unit.        *)
(***************************************************************************)
\* a variant of the index format without the padding to two digits
TwoDigits_Unpadded(n) == ToString(n)

\* "{base_name}_{self.current_file_index:02d}{extension}"
TwoDigits(n) == IF n < 10 THEN "0" \o ToString(n) ELSE ToString(n)

\* the output template (index 0) and the names get_new_output_filename derives
FileName(index) ==
    IF index = 0 THEN "results.csv" ELSE "results_" \o TwoDigits(index) \o ".csv"

\* what int(time.time()) can be when init_output_file falls back
Times == {1700000000, 1700000001}

\* f"found_balances_{int(time.time())}.txt"
BackupName(t) == "found_balances_" \o ToString(t) \o ".txt"

\* the output template of a second session, and the names derived from it
PeerFileName(index) ==
    IF index = 0 THEN "peer.csv" ELSE "peer_" \o TwoDigits(index) \o ".csv"

FileNames ==
    {FileName(k) : k \in 0..(MaxHits + 1)} \cup {BackupName(t) : t \in Times}
        \cup {PeerFileName(k) : k \in 0..(MaxHits + 1)}

\* "Private Key,Address,Balance (BTC),Timestamp,API Used\n"
Header ==
    [hdr |-> TRUE, private_key |-> 0, address |-> 0, balance |-> 0, api_used |-> ""]

\* f"{private_key},{address},{balance},{timestamp},{api_used}\n"
\* (the timestamp column is left out: nothing reads it back)
DataRow(private_key, address, balance, api_used) ==
    [hdr |-> FALSE, private_key |-> private_key, address |-> address,
     balance |-> balance, api_used |-> api_used]

NoFile == [exists |-> FALSE, rows |-> << >>]

\* os.path.getsize
FileSize(f) == Len(f.rows)

\* a variant of check_file_size that never reports the limit as reached
check_file_size_Never(fs, of, limit) == FALSE

\* check_file_size: the current file exists and has reached the limit
check_file_size(fs, of, limit) ==
    fs[of].exists /\ FileSize(fs[of]) >= limit

\* get_new_output_filename: the index goes up by one, the name comes from the template
get_new_output_filename(index) ==
    [index |-> index + 1, name |-> FileName(index + 1)]

\* a variant of CreateWithHeader that leaves the new file empty
CreateWithHeader_NoHeader(fs, name) ==
    [fs EXCEPT ![name] = [exists |-> TRUE, rows |-> << >>]]

\* open(name, 'w') and the header written
CreateWithHeader(fs, name) ==
    [fs EXCEPT ![name] = [exists |-> TRUE, rows |-> <<Header>>]]

\* open(name, 'a') and one row written
AppendRow(fs, name, row) ==
    [fs EXCEPT ![name] = [exists |-> TRUE, rows |-> Append(fs[name].rows, row)]]

InitFailures == {"none", "makedirs", "open"}

\* a variant of init_output_file that stays with the primary file when it
\* cannot be created
init_output_file_KeepsPrimary(fs, of, index, limit, primaryFail, backupOk, t) ==
    LET create == ~fs[of].exists
        raised == primaryFail = "makedirs" \/ (primaryFail = "open" /\ create)
    IN  [files |-> IF create /\ ~raised THEN CreateWithHeader(fs, of) ELSE fs,
         output_file |-> of, index |-> index, ok |-> ~raised]

\* init_output_file.  primaryFail says where the primary location fails
\* (os.makedirs, or open(..., 'w') when the file has to be created), backupOk
\* whether the backup file in the working directory can be written, t the clock.
init_output_file(fs, of, index, limit, primaryFail, backupOk, t) ==
    LET roll   == primaryFail # "makedirs" /\ check_file_size(fs, of, limit)
        new    == get_new_output_filename(index)
        index1 == IF roll THEN new.index ELSE index
        of1    == IF roll THEN new.name ELSE of
        create == ~fs[of1].exists
        raised == primaryFail = "makedirs" \/ (primaryFail = "open" /\ create)
    IN  IF ~raised
           THEN [files |-> IF create THEN CreateWithHeader(fs, of1) ELSE fs,
                 output_file |-> of1, index |-> index1, ok |-> TRUE]
           ELSE [files |-> IF backupOk THEN CreateWithHeader(fs, BackupName(t)) ELSE fs,
                 output_file |-> BackupName(t), index |-> index1, ok |-> backupOk]

SaveFailures == {"none", "rollover", "append"}

\* save_result_realtime.  fail says which open raises, if any: the 'w' of a
\* rollover or the 'a' of the append; either way the method returns False.
save_result_realtime(fs, of, index, limit, row, fail) ==
    LET roll   == check_file_size(fs, of, limit)
        new    == get_new_output_filename(index)
        index1 == IF roll THEN new.index ELSE index
        of1    == IF roll THEN new.name ELSE of
        fs1    == IF roll /\ fail # "rollover" THEN CreateWithHeader(fs, of1) ELSE fs
    IN  IF (roll /\ fail = "rollover") \/ fail = "append"
           THEN [files |-> fs1, output_file |-> of1, index |-> index1, ok |-> FALSE]
           ELSE [files |-> AppendRow(fs1, of1, row), output_file |-> of1,
                 index |-> index1, ok |-> TRUE]

\* the row an earlier session wrote for each of its hits: a funded key found
\* through the last provider of the registry
PriorRow == DataRow(1, 1, 1, api_functions[Len(api_functions)])

\* the sink as an earlier session with the same output template and the same
\* size limit left it after init_output_file and h saved hits, none of its
\* writes failing
RECURSIVE EarlierRun(_, _)
EarlierRun(h, limit) ==
    IF h = 0
       THEN LET r == init_output_file([name \in FileNames |-> NoFile], FileName(0), 0,
                                      limit, "none", TRUE, CHOOSE t \in Times : TRUE)
            IN  [files |-> r.files, output_file |-> r.output_file, index |-> r.index]
       ELSE LET s == EarlierRun(h - 1, limit)
                r == save_result_realtime(s.files, s.output_file, s.index, limit,
                                          PriorRow, "none")
            IN  [files |-> r.files, output_file |-> r.output_file, index |-> r.index]

\* the output directory a session can find: empty, or as an earlier session
\* of at most MaxHits hits left it
PriorFiles(limit) ==
    {[name \in FileNames |-> NoFile]}
        \cup {EarlierRun(h, limit).files : h \in 0..MaxHits}

(***************************************************************************)
(* KeyExtractor and AddressResolver.                                       *)
(***************************************************************************)
\* a variant of the search that takes the first candidate untried
FirstDeriving_FirstCandidate(cands, k) ==
    IF k > Len(cands) THEN [valid |-> FALSE, key |-> 0]
    ELSE [valid |-> TRUE, key |-> cands[k]]

\* the first candidate from position k on that privkey_to_pubkey accepts
RECURSIVE FirstDeriving(_, _)
FirstDeriving(cands, k) ==
    IF k > Len(cands) THEN [valid |-> FALSE, key |-> 0]
    ELSE IF Derives(cands[k]) THEN [valid |-> TRUE, key |-> cands[k]]
    ELSE FirstDeriving(cands, k + 1)

\* extract_and_validate_private_key: (is_valid, private_key)
extract_and_validate_private_key(line) == FirstDeriving(line.cands, 1)

\* get_address_from_private_key
get_address_from_private_key(private_key) == private_key

(***************************************************************************)
(* The extractor on the text of a line.  A line is a sequence of           *)
(* characters over a small alphabet that has one character of each kind    *)
(* the two patterns tell apart; the lengths of the patterns are scaled     *)
(* down (a WIF key: a lead character and 2 to 3 more for 50 to 51, a hex   *)
(* key: 5 characters for 64).  The key candidates of Lines above are what  *)
(* this text level produces.                                               *)
(***************************************************************************)
\* "5": [5KL], base58 and hex;  "K": [5KL] and base58, not hex;
\* "a": base58 and hex;  "0": hex, not base58;  " ": white space
Alphabet == {"5", "K", "a", "0", " "}

\* [5KL]
WifLead == {"5", "K"}

\* [1-9A-HJ-NP-Za-km-z]
Base58 == {"5", "K", "a"}

\* [0-9a-fA-F]
HexChars == {"5", "a", "0"}

\* {50,51}, scaled
WifBodyMin == 2

WifBodyMax == 3

\* {64}, scaled
HexLen == 5

\* the length of a raw key, the format privkey_to_pubkey recognises by its
\* length alone (32), scaled
BinLen == 2

Texts == UNION { [1..n -> Alphabet] : n \in 0..MaxChars }

\* how many characters of class cls follow one another from position pos,
\* counted up to max
RECURSIVE RunLength(_, _, _, _)
RunLength(s, pos, cls, max) ==
    IF max = 0 \/ pos > Len(s) \/ s[pos] \notin cls THEN 0
    ELSE 1 + RunLength(s, pos + 1, cls, max - 1)

\* the length of the match of a pattern that starts at pos (0: no match);
\* the quantifier {50,51} is greedy
MatchLength(s, pos, pattern) ==
    IF pattern = "wif"
       THEN IF pos <= Len(s) /\ s[pos] \in WifLead
               THEN LET body == RunLength(s, pos + 1, Base58, WifBodyMax)
                    IN  IF body >= WifBodyMin THEN 1 + body ELSE 0
               ELSE 0
       ELSE IF RunLength(s, pos, HexChars, HexLen) = HexLen THEN HexLen ELSE 0

\* re.findall(pattern, line): the matches from left to right, each search
\* starting where the previous match ended
RECURSIVE findall(_, _, _)
findall(pattern, s, pos) ==
    IF pos > Len(s) THEN << >>
    ELSE LET n == MatchLength(s, pos, pattern)
         IN  IF n > 0
                THEN <<SubSeq(s, pos, pos + n - 1)>> \o findall(pattern, s, pos + n)
                ELSE findall(pattern, s, pos + 1)

\* line.strip()
RECURSIVE strip(_)
strip(s) ==
    IF s = << >> THEN s
    ELSE IF s[1] = " " THEN strip(Tail(s))
    ELSE IF s[Len(s)] = " " THEN strip(SubSeq(s, 1, Len(s) - 1))
    ELSE s

\* a string of the WIF pattern's shape; its last character stands for the
\* checksum, which is right when it repeats the first
WifShaped(s) ==
    /\ Len(s) \in (1 + WifBodyMin)..(1 + WifBodyMax)
    /\ s[1] \in WifLead
    /\ \A k \in 2..Len(s) : s[k] \in Base58

HexShaped(s) == Len(s) = HexLen /\ \A k \in 1..Len(s) : s[k] \in HexChars

\* privkey_to_pubkey(candidate) returns rather than raises: a raw key by its
\* length, a hex key other than zero, a WIF key whose checksum is right
privkey_to_pubkey(s) ==
    \/ Len(s) = BinLen
    \/ HexShaped(s) /\ \E k \in 1..Len(s) : s[k] # "0"
    \/ WifShaped(s) /\ s[Len(s)] = s[1]

\* the first candidate from position k on that privkey_to_pubkey accepts
RECURSIVE FirstAccepted(_, _)
FirstAccepted(cands, k) ==
    IF k > Len(cands) THEN [done |-> TRUE, valid |-> FALSE, key |-> << >>]
    ELSE IF privkey_to_pubkey(cands[k])
            THEN [done |-> TRUE, valid |-> TRUE, key |-> cands[k]]
            ELSE FirstAccepted(cands, k + 1)

\* a variant of the extractor that tries the hex matches before the WIF ones
ExtractFromText_HexFirst(s) ==
    FirstAccepted(findall("hex", s, 1) \o findall("wif", s, 1) \o <<strip(s)>>, 1)

\* extract_and_validate_private_key on the text of a line: the WIF matches,
\* then the hex matches, then the stripped line
ExtractFromText(s) ==
    FirstAccepted(findall("wif", s, 1) \o findall("hex", s, 1) \o <<strip(s)>>, 1)

(***************************************************************************)
(* ScanController: run and process_keys.                                   *)
(***************************************************************************)
\* Python's lines[start:end] index normalisation
SliceIndex(x, n) ==
    IF x < 0 THEN (IF n + x < 0 THEN 0 ELSE n + x)
    ELSE IF x > n THEN n ELSE x

\* len(lines[self.start_line:end_line]), end_line defaulting to len(lines)
SliceLen(n, start, end) ==
    LET lo == SliceIndex(start, n)
        hi == SliceIndex(IF end.isNone THEN n ELSE end.value, n)
    IN  IF hi > lo THEN hi - lo ELSE 0

NoLimit == [isNone |-> TRUE, value |-> 0]

NoStep ==
    [text |-> "", extracted |-> FALSE, key |-> 0, lookup |-> FALSE, hit |-> FALSE,
     saved |-> FALSE, slept |-> FALSE, progressCb |-> FALSE, foundCb |-> FALSE]

NoCall == [made |-> FALSE]

\* the delays the model configures: time.sleep raises ValueError on a negative one
Delays == {-1, 1}

\* the size limits the model configures, in rows
SizeLimits == {2}

\* the size limits of the sessions that start on an earlier session's files
SinkSizeLimits == 0..3

\* no callback yet
NoCallback == [processed_count |-> 0, total_count |-> 0, found_count |-> 0]

\* a variant of the callback's arguments that reports every line as found
CallbackArgs_FoundIsProcessed(n, total, rs) ==
    [processed_count |-> n, total_count |-> total, found_count |-> n]

\* "self.progress_callback(self, i + 1, total_keys, len(results), ...)", n = i + 1
CallbackArgs(n, total, rs) ==
    [processed_count |-> n, total_count |-> total, found_count |-> Len(rs)]

\* "(i + 1) % 10 == 0 or (i + 1) == total_keys", n = i + 1
ProgressDue(n, total) == n % ProgressEvery = 0 \/ n = total

\* a variant of the skip test that lets comments through
IsSkipped_EmptyOnly(line) == line.text = "empty"

\* "not private_key or private_key.startswith('#')"
IsSkipped(line) == line.text \in {"empty", "comment"}

\* a variant of the test for None that takes every answer for a balance
IsAbsent_Never(balance) == FALSE

\* "balance is None" / "balance > 0" on what check_balance returned
IsAbsent(balance) == balance.kind = "none"

\* a variant of the hit test that also takes a zero balance for a hit
IsHit_NonNegative(balance) == balance.kind = "value" /\ balance.value >= 0

IsHit(balance) == balance.kind = "value" /\ balance.value > 0

\* where init_output_file can fail in the directory as it is: os.makedirs is
\* only called for a directory that does not exist yet, so not for one that
\* holds output files
InitFailuresIn(fs) ==
    IF \E name \in FileNames : fs[name].exists
       THEN InitFailures \ {"makedirs"}
       ELSE InitFailures

\* a variant of run() that returns at once when init_output_file reports failure
InitOutputFile_StopsOnFailure ==
    /\ pc = "init"
    /\ \E primaryFail \in InitFailuresIn(files), backupOk \in BOOLEAN, t \in Times :
         LET r == init_output_file(files, output_file, current_file_index,
                                   max_file_size_bytes, primaryFail, backupOk, t)
         IN  /\ files' = r.files
             /\ output_file' = r.output_file
             /\ current_file_index' = r.index
             /\ init_ok' = r.ok
             /\ pc' = IF r.ok THEN "open" ELSE "done"
    /\ UNCHANGED << config, others, current_api_index, results, total_keys, i, aborted,
                    observed >>

\* run(): "self.init_output_file()", its result ignored
InitOutputFile ==
    /\ pc = "init"
    /\ \E primaryFail \in InitFailuresIn(files), backupOk \in BOOLEAN, t \in Times :
         LET r == init_output_file(files, output_file, current_file_index,
                                   max_file_size_bytes, primaryFail, backupOk, t)
         IN  /\ files' = r.files
             /\ output_file' = r.output_file
             /\ current_file_index' = r.index
             /\ init_ok' = r.ok
    /\ pc' = "open"
    /\ UNCHANGED << config, others, current_api_index, results, total_keys, i, aborted,
                    observed >>

\* a variant of the start of process_keys that enters the loop whatever the
\* state of the input file
OpenInput_IgnoresMissing ==
    /\ pc = "open"
    /\ total_keys' = SliceLen(nLines, start_line, end_line)
    /\ pc' = "loop"
    /\ UNCHANGED << config, others, sink, current_api_index, results, i, init_ok, aborted,
                    observed >>

\* process_keys up to the loop: the existence check, open, readlines, the slice
OpenInput ==
    /\ pc = "open"
    /\ IF input_file = "ok"
          THEN /\ total_keys' = SliceLen(nLines, start_line, end_line)
               /\ pc' = "loop"
               /\ UNCHANGED aborted
          ELSE /\ pc' = "done"
               /\ aborted' = (input_file = "unreadable")
               /\ UNCHANGED total_keys
    /\ UNCHANGED << config, others, sink, current_api_index, results, i, init_ok, observed >>

\* The start of one iteration of "for i, line in enumerate(lines_to_process)":
\* the skip of empty lines and comments, the progress update, the extraction.
\* A line with a key goes on to check_balance; any other line ends the iteration.
BeginLine ==
    /\ pc = "loop"
    /\ i < total_keys
    /\ \E line \in Lines :
         LET n  == i + 1
             ex == extract_and_validate_private_key(line)
             cb == ~IsSkipped(line) /\ ProgressDue(n, total_keys) /\ progress_callback
             lookup == ~IsSkipped(line) /\ ex.valid
         IN  /\ i' = n
             /\ lastCbAt' = IF cb THEN n ELSE lastCbAt
             /\ lastCb' = IF cb THEN CallbackArgs(n, total_keys, results) ELSE lastCb
             /\ finalCb' = (finalCb \/ (cb /\ n = total_keys))
             /\ step' = [NoStep EXCEPT !.text = line.text, !.progressCb = cb,
                                       !.extracted = lookup,
                                       !.key = IF lookup THEN ex.key ELSE 0]
             /\ IF lookup
                   THEN /\ pc' = "lookup"
                        /\ callCount' = callCount + 1
                        /\ call' = [made |-> TRUE, mode |-> api_type,
                                    index |-> current_api_index, invoked |-> << >>,
                                    responses |-> << >>, result |-> Continue]
                   ELSE /\ call' = NoCall
                        /\ UNCHANGED << pc, callCount >>
    /\ UNCHANGED << config, others, sink, current_api_index, results, total_keys, init_ok,
                    aborted, useCount, sleepCount, foundCbCount >>

\* The rest of the iteration once check_balance returned r: "continue" on None;
\* on a positive balance save_result_realtime, results.append and the found-key
\* callback; then time.sleep(self.delay), which raises on a negative delay.
FinishLine(r, fail) ==
    LET key     == step.key
        address == get_address_from_private_key(key)
        hit     == ~r.raised /\ IsHit(r.balance)
        saved   == save_result_realtime(files, output_file, current_file_index,
                       max_file_size_bytes,
                       DataRow(key, address, r.balance.value, r.api_used), fail)
        foundCb == hit /\ progress_callback
        sleeps  == ~r.raised /\ ~IsAbsent(r.balance)
        slept   == sleeps /\ delay >= 0
        raised  == r.raised \/ (sleeps /\ delay < 0)
    IN  /\ IF hit
              THEN /\ files' = saved.files
                   /\ output_file' = saved.output_file
                   /\ current_file_index' = saved.index
                   /\ results' = Append(results,
                          [private_key |-> key, address |-> address,
                           balance |-> r.balance.value, api_used |-> r.api_used])
              ELSE UNCHANGED << sink, results >>
        /\ foundCbCount' = IF foundCb THEN foundCbCount + 1 ELSE foundCbCount
        /\ lastCbAt' = IF foundCb THEN i ELSE lastCbAt
        /\ lastCb' = IF foundCb THEN CallbackArgs(i, total_keys, results') ELSE lastCb
        /\ finalCb' = (finalCb \/ (foundCb /\ i = total_keys))
        /\ sleepCount' = IF slept THEN sleepCount + 1 ELSE sleepCount
        /\ step' = [step EXCEPT !.lookup = TRUE, !.hit = hit,
                                !.saved = hit /\ saved.ok, !.slept = slept,
                                !.foundCb = foundCb]
        /\ aborted' = raised
        /\ pc' = IF raised THEN "done" ELSE "loop"

\* check_balance invokes its next provider, which answers; the call then goes
\* on to another provider or returns, and the iteration finishes.  (A cursor
\* outside the list would raise IndexError instead of invoking anything.)
InvokeProvider ==
    /\ pc = "lookup"
    /\ NextProvider(api_type, current_api_index, call.invoked) \in ProviderIdx
    /\ \E response \in Responses(Len(results) < MaxHits) :
         LET k == NextProvider(api_type, current_api_index, call.invoked)
             r == check_balance(api_type, k, response)
         IN  /\ current_api_index' = CursorAfter(api_type, current_api_index)
             /\ useCount' = [useCount EXCEPT ![k] = @ + 1]
             /\ call' = [call EXCEPT !.invoked = Append(@, api_functions[k]),
                                     !.responses = Append(@, response),
                                     !.result = r]
             /\ IF r.returns
                   THEN \E fail \in IF IsHit(r.balance) THEN SaveFailures ELSE {"none"} :
                           FinishLine(r, fail)
                   ELSE UNCHANGED << sink, results, foundCbCount, lastCbAt, lastCb, finalCb,
                                     sleepCount, step, aborted, pc >>
    /\ UNCHANGED << config, others, total_keys, i, init_ok, callCount >>

\* a variant of the end of the loop that starts over at the first line
EndLoop_StartsOver ==
    /\ pc = "loop"
    /\ i = total_keys
    /\ i' = 0
    /\ UNCHANGED << config, others, sink, current_api_index, results, total_keys, pc,
                    init_ok, aborted, observed >>

\* the loop is exhausted: "return results"
EndLoop ==
    /\ pc = "loop"
    /\ i = total_keys
    /\ pc' = "done"
    /\ UNCHANGED << config, others, sink, current_api_index, results, total_keys, i,
                    init_ok, aborted, observed >>

\* "sum(result['balance'] for result in results)"
RECURSIVE TotalBalance(_)
TotalBalance(rs) ==
    IF rs = << >> THEN 0 ELSE rs[1].balance + TotalBalance(Tail(rs))

\* a variant of the usage statistics that notes which providers occur
ApiStats_Presence(rs) ==
    [name \in {rs[k].api_used : k \in 1..Len(rs)} |-> 1]

\* the api_stats dictionary: for each api_used of the records, how many
\* records carry it
ApiStats(rs) ==
    [name \in {rs[k].api_used : k \in 1..Len(rs)} |->
        Cardinality({k \in 1..Len(rs) : rs[k].api_used = name})]

NoSummary ==
    [logged |-> FALSE, keys_found |-> 0, total_balance |-> 0, api_stats |-> << >>]

\* run()'s final summary, written to the log "if results:"
FinalSummary(rs) ==
    IF rs # << >>
       THEN [logged |-> TRUE, keys_found |-> Len(rs),
             total_balance |-> TotalBalance(rs), api_stats |-> ApiStats(rs)]
       ELSE NoSummary

NoReturn == [done |-> FALSE, kind |-> "", value |-> << >>, summary |-> NoSummary]

\* run() once process_keys has returned: the summary goes to the log and
\* "return results" hands the list of records to the caller
RunSummary ==
    /\ pc = "done"
    /\ ~returned.done
    /\ returned' = [done |-> TRUE, kind |-> "records", value |-> results,
                    summary |-> FinalSummary(results)]
    /\ UNCHANGED << config, sink, current_api_index, results, total_keys, i, pc,
                    init_ok, aborted, observed, status, peer, text, extraction,
                    registered >>

\* no web job, no second session, no separate call of the extractor
NoPeer == [pc |-> "none", output_file |-> "", index |-> 0, hits |-> 0]

NoExtraction == [done |-> FALSE, valid |-> FALSE, key |-> << >>]

Alone ==
    /\ status = "none"
    /\ peer = NoPeer
    /\ text = << >>
    /\ extraction = NoExtraction
    /\ returned = NoReturn
    /\ registered = (status = "running")

Init ==
    /\ api_type \in ApiTypes
    /\ delay \in Delays
    /\ progress_callback \in BOOLEAN
    /\ start_line = 0
    /\ end_line = NoLimit
    /\ max_file_size_bytes \in SizeLimits
    /\ input_file \in {"ok", "missing", "unreadable"}
    /\ nLines \in 0..MaxLines
    /\ (input_file # "ok" => nLines = 0)
    /\ files = [name \in FileNames |-> NoFile]
    /\ current_api_index = 0
    /\ output_file = FileName(0)
    /\ current_file_index = 0
    /\ results = << >>
    /\ total_keys = 0
    /\ i = 0
    /\ pc = "init"
    /\ init_ok = FALSE
    /\ aborted = FALSE
    /\ step = NoStep
    /\ call = NoCall
    /\ callCount = 0
    /\ useCount = [k \in ProviderIdx |-> 0]
    /\ sleepCount = 0
    /\ lastCbAt = 0
    /\ lastCb = NoCallback
    /\ finalCb = FALSE
    /\ foundCbCount = 0
    /\ Alone

Next ==
    InitOutputFile \/ OpenInput \/ BeginLine \/ InvokeProvider \/ EndLoop \/ RunSummary

Spec == Init /\ [][Next]_vars

\* The session as the thread that runs it executes it: the thread is never
\* suspended for ever, every provider call returns or raises (requests are
\* made with a timeout) and time.sleep(delay) returns, so a step that can
\* be taken is taken.
\* (Every mode, delay and state of the input file; no progress callback,
\* which has no part in how the loop advances.)
FairInit ==
    /\ api_type \in ApiTypes
    /\ delay \in Delays
    /\ progress_callback = FALSE
    /\ start_line = 0
    /\ end_line = NoLimit
    /\ max_file_size_bytes \in SizeLimits
    /\ input_file \in {"ok", "missing", "unreadable"}
    /\ nLines \in 0..MaxLines
    /\ (input_file # "ok" => nLines = 0)
    /\ files = [name \in FileNames |-> NoFile]
    /\ current_api_index = 0
    /\ output_file = FileName(0)
    /\ current_file_index = 0
    /\ results = << >>
    /\ total_keys = 0
    /\ i = 0
    /\ pc = "init"
    /\ init_ok = FALSE
    /\ aborted = FALSE
    /\ step = NoStep
    /\ call = NoCall
    /\ callCount = 0
    /\ useCount = [k \in ProviderIdx |-> 0]
    /\ sleepCount = 0
    /\ lastCbAt = 0
    /\ lastCb = NoCallback
    /\ finalCb = FALSE
    /\ foundCbCount = 0
    /\ Alone

FairSpec == FairInit /\ [][Next]_vars /\ WF_vars(Next)

\* A session pinned to the first provider that starts in an output directory
\* an earlier session may have written to, under any of the size limits.
SinkInit ==
    /\ api_type = api_functions[1]
    /\ delay = 1
    /\ progress_callback = FALSE
    /\ start_line = 0
    /\ end_line = NoLimit
    /\ max_file_size_bytes \in SinkSizeLimits
    /\ input_file = "ok"
    /\ nLines \in 0..MaxLines
    /\ files \in PriorFiles(max_file_size_bytes)
    /\ current_api_index = 0
    /\ output_file = FileName(0)
    /\ current_file_index = 0
    /\ results = << >>
    /\ total_keys = 0
    /\ i = 0
    /\ pc = "init"
    /\ init_ok = FALSE
    /\ aborted = FALSE
    /\ step = NoStep
    /\ call = NoCall
    /\ callCount = 0
    /\ useCount = [k \in ProviderIdx |-> 0]
    /\ sleepCount = 0
    /\ lastCbAt = 0
    /\ lastCb = NoCallback
    /\ finalCb = FALSE
    /\ foundCbCount = 0
    /\ Alone

SinkSpec == SinkInit /\ [][Next]_vars

(***************************************************************************)
(* The web job around a session (app.py).  upload_file has stored the job  *)
(* with status 'running' and started process_file in a thread; the thread  *)
(* builds the checker and calls run(), which is the session above.  The    *)
(* request handlers run in other threads, at any time.                     *)
(***************************************************************************)
\* process_file after checker.run() returned: the final statistics and
\* job_info['status'] = 'completed'
process_file_end ==
    /\ pc = "done"
    /\ returned.done
    /\ pc' = "exit"
    /\ status' = "completed"
    /\ UNCHANGED << config, sink, current_api_index, results, total_keys, i,
                    init_ok, aborted, observed, peer, text, extraction, returned, registered >>

\* cancel_job: a running job is marked cancelled; for any other status the
\* handler only flashes a message
cancel_job ==
    /\ registered
    /\ status = "running"
    /\ status' = "cancelled"
    /\ UNCHANGED << config, sink, current_api_index, results, total_keys, i, pc,
                    init_ok, aborted, observed, peer, text, extraction, returned, registered >>

\* upload_file: "job_info['total_keys'] = total_lines - start_line if end_line
\* is None else min(end_line, total_lines) - start_line"
upload_total_keys(total_lines, start, end) ==
    IF end.isNone THEN total_lines - start
    ELSE (IF end.value < total_lines THEN end.value ELSE total_lines) - start

\* clear_job: a job that is completed, failed or cancelled loses its input
\* file (os.remove, whose failure is only logged) and its entry in
\* running_jobs; for a running job the handler only flashes a message
clear_job ==
    /\ registered
    /\ status \in {"completed", "failed", "cancelled"}
    /\ registered' = FALSE
    /\ \E removed \in BOOLEAN :
         input_file' = IF removed /\ input_file # "missing" THEN "missing" ELSE input_file
    /\ UNCHANGED << api_type, delay, progress_callback, start_line, end_line,
                    max_file_size_bytes, nLines, sink, current_api_index, results,
                    total_keys, i, pc, init_ok, aborted, observed, status, peer, text,
                    extraction, returned >>

\* the job upload_file has just started: process_file passes update_progress
\* as the callback and a fresh output path
JobInit ==
    /\ api_type = api_functions[1]
    /\ delay = 1
    /\ progress_callback = TRUE
    /\ start_line = 0
    /\ end_line = NoLimit
    /\ max_file_size_bytes \in SizeLimits
    /\ input_file = "ok"
    /\ nLines \in 0..MaxLines
    /\ files = [name \in FileNames |-> NoFile]
    /\ current_api_index = 0
    /\ output_file = FileName(0)
    /\ current_file_index = 0
    /\ results = << >>
    /\ total_keys = 0
    /\ i = 0
    /\ pc = "init"
    /\ init_ok = FALSE
    /\ aborted = FALSE
    /\ step = NoStep
    /\ call = NoCall
    /\ callCount = 0
    /\ useCount = [k \in ProviderIdx |-> 0]
    /\ sleepCount = 0
    /\ lastCbAt = 0
    /\ lastCb = NoCallback
    /\ finalCb = FALSE
    /\ foundCbCount = 0
    /\ status = "running"
    /\ peer = NoPeer
    /\ text = << >>
    /\ extraction = NoExtraction
    /\ returned = NoReturn
    /\ registered = (status = "running")

JobNext == Next \/ process_file_end \/ cancel_job \/ clear_job

JobSpec == JobInit /\ [][JobNext]_vars

(***************************************************************************)
(* A second session, started for another job with an output path of its    *)
(* own, runs the same code concurrently.  Of that session the model keeps  *)
(* what it does to the file system: its init_output_file and one           *)
(* save_result_realtime per hit, on the names derived from its template.   *)
(***************************************************************************)
\* the name that stands in the second session where the first has name
Mirror(name) ==
    IF \E k \in 0..(MaxHits + 1) : name = FileName(k)
       THEN PeerFileName(CHOOSE k \in 0..(MaxHits + 1) : name = FileName(k))
       ELSE IF \E k \in 0..(MaxHits + 1) : name = PeerFileName(k)
               THEN FileName(CHOOSE k \in 0..(MaxHits + 1) : name = PeerFileName(k))
               ELSE name

\* the file system as the code of the second session addresses it
PeerView(fs) == [name \in FileNames |-> fs[Mirror(name)]]

\* the row the second session writes for each of its hits
PeerRow == DataRow(1, 1, 1, api_functions[Len(api_functions)])

\* run() of the second session: init_output_file
PeerInitOutputFile ==
    /\ peer.pc = "init"
    /\ \E primaryFail \in InitFailuresIn(PeerView(files)), backupOk \in BOOLEAN,
          t \in Times :
         LET r == init_output_file(PeerView(files), Mirror(peer.output_file),
                                   peer.index, max_file_size_bytes, primaryFail,
                                   backupOk, t)
         IN  /\ files' = PeerView(r.files)
             /\ peer' = [pc |-> "scan", output_file |-> Mirror(r.output_file),
                         index |-> r.index, hits |-> 0]
    /\ UNCHANGED << config, output_file, current_file_index, current_api_index,
                    results, total_keys, i, pc, init_ok, aborted, observed,
                    status, text, extraction, returned, registered >>

\* process_keys of the second session found a positive balance:
\* save_result_realtime
PeerSave ==
    /\ peer.pc = "scan"
    /\ peer.hits < MaxHits
    /\ \E fail \in SaveFailures :
         LET r == save_result_realtime(PeerView(files), Mirror(peer.output_file),
                                       peer.index, max_file_size_bytes, PeerRow, fail)
         IN  /\ files' = PeerView(r.files)
             /\ peer' = [peer EXCEPT !.output_file = Mirror(r.output_file),
                                     !.index = r.index, !.hits = @ + 1]
    /\ UNCHANGED << config, output_file, current_file_index, current_api_index,
                    results, total_keys, i, pc, init_ok, aborted, observed,
                    status, text, extraction, returned, registered >>

\* two sessions just constructed, each with its own output path
SessionsInit ==
    /\ api_type = api_functions[1]
    /\ delay = 1
    /\ progress_callback = FALSE
    /\ start_line = 0
    /\ end_line = NoLimit
    /\ max_file_size_bytes \in SizeLimits
    /\ input_file = "ok"
    /\ nLines \in 0..MaxLines
    /\ files = [name \in FileNames |-> NoFile]
    /\ current_api_index = 0
    /\ output_file = FileName(0)
    /\ current_file_index = 0
    /\ results = << >>
    /\ total_keys = 0
    /\ i = 0
    /\ pc = "init"
    /\ init_ok = FALSE
    /\ aborted = FALSE
    /\ step = NoStep
    /\ call = NoCall
    /\ callCount = 0
    /\ useCount = [k \in ProviderIdx |-> 0]
    /\ sleepCount = 0
    /\ lastCbAt = 0
    /\ lastCb = NoCallback
    /\ finalCb = FALSE
    /\ foundCbCount = 0
    /\ status = "none"
    /\ peer = [pc |-> "init", output_file |-> PeerFileName(0), index |-> 0, hits |-> 0]
    /\ text = << >>
    /\ extraction = NoExtraction
    /\ returned = NoReturn
    /\ registered = (status = "running")

SessionsNext == Next \/ PeerInitOutputFile \/ PeerSave

SessionsSpec == SessionsInit /\ [][SessionsNext]_vars

(***************************************************************************)
(* Sessions configured with a line range.  --start and --end are any       *)
(* integers (argparse type=int), and the upload form's start_line is       *)
(* int() of what was posted.                                               *)
(***************************************************************************)
StartLines == -1..(MaxLines + 1)

EndLines ==
    {NoLimit} \cup { [isNone |-> FALSE, value |-> v] : v \in -1..(MaxLines + 1) }

RangeInit ==
    /\ api_type = "auto"
    /\ delay = 1
    /\ progress_callback = TRUE
    /\ start_line \in StartLines
    /\ end_line \in EndLines
    /\ max_file_size_bytes \in SizeLimits
    /\ input_file = "ok"
    /\ nLines \in 0..MaxLines
    /\ files = [name \in FileNames |-> NoFile]
    /\ current_api_index = 0
    /\ output_file = FileName(0)
    /\ current_file_index = 0
    /\ results = << >>
    /\ total_keys = 0
    /\ i = 0
    /\ pc = "init"
    /\ init_ok = FALSE
    /\ aborted = FALSE
    /\ step = NoStep
    /\ call = NoCall
    /\ callCount = 0
    /\ useCount = [k \in ProviderIdx |-> 0]
    /\ sleepCount = 0
    /\ lastCbAt = 0
    /\ lastCb = NoCallback
    /\ finalCb = FALSE
    /\ foundCbCount = 0
    /\ Alone

RangeSpec == RangeInit /\ [][Next]_vars

(***************************************************************************)
(* The extractor called on its own, on any text.                           *)
(***************************************************************************)
ExtractCall ==
    /\ ~extraction.done
    /\ extraction' = ExtractFromText(text)
    /\ UNCHANGED << config, sink, current_api_index, results, total_keys, i, pc,
                    init_ok, aborted, observed, status, peer, text, returned, registered >>

ExtractInit ==
    /\ api_type = "auto"
    /\ delay = 1
    /\ progress_callback = FALSE
    /\ start_line = 0
    /\ end_line = NoLimit
    /\ max_file_size_bytes \in SizeLimits
    /\ input_file = "ok"
    /\ nLines = 0
    /\ files = [name \in FileNames |-> NoFile]
    /\ current_api_index = 0
    /\ output_file = FileName(0)
    /\ current_file_index = 0
    /\ results = << >>
    /\ total_keys = 0
    /\ i = 0
    /\ pc = "init"
    /\ init_ok = FALSE
    /\ aborted = FALSE
    /\ step = NoStep
    /\ call = NoCall
    /\ callCount = 0
    /\ useCount = [k \in ProviderIdx |-> 0]
    /\ sleepCount = 0
    /\ lastCbAt = 0
    /\ lastCb = NoCallback
    /\ finalCb = FALSE
    /\ foundCbCount = 0
    /\ status = "none"
    /\ peer = NoPeer
    /\ text \in Texts
    /\ extraction = NoExtraction
    /\ returned = NoReturn
    /\ registered = (status = "running")

ExtractNext == ExtractCall

ExtractSpec == ExtractInit /\ [][ExtractNext]_vars

(***************************************************************************)
(* Properties of check_balance.  call records the check_balance call of    *)
(* the current iteration: the providers invoked so far, what each          *)
(* answered, and the call's result once it has returned.                   *)
(***************************************************************************)
CallReturned == call.made /\ call.result.returns

\* the answers so far that are a balance (neither an exception nor None)
ValueAnswers == {j \in 1..Len(call.responses) : call.responses[j].kind = "value"}

\* C1: in auto mode the providers are invoked in registration order, a
\* provider that raises or answers None is passed over for the next one, and
\* the call returns the balance of the first provider whose answer is not
\* None, together with that provider's own name.
C1_AutoReturnsFirstNonAbsent ==
    (call.made /\ call.mode = "auto") =>
        /\ \A j \in 1..Len(call.invoked) : call.invoked[j] = api_functions[j]
        /\ ValueAnswers # {} =>
              LET first == CHOOSE j \in ValueAnswers : \A m \in ValueAnswers : j <= m
              IN  /\ call.result.returns
                  /\ call.result.balance = call.responses[first]
                  /\ call.result.api_used = api_functions[first]
        /\ (call.result.returns /\ ValueAnswers = {}) =>
              Len(call.invoked) = Len(api_functions)

\* C1 witness: the first provider raised, the second one's balance came back
C1_Witness ==
    /\ CallReturned /\ call.mode = "auto"
    /\ Len(call.invoked) = 2
    /\ call.responses[1].kind = "raise"
    /\ call.result.balance = Bal(1)
    /\ call.result.api_used = "blockcypher"

\* C2: in auto mode no provider is invoked after one that answered with a
\* balance: that provider is the last one invoked, if it is the first
\* provider it is the only one, and no provider is invoked twice in a call.
C2_AutoStopsAtFirstSuccess ==
    (call.made /\ call.mode = "auto") =>
        /\ \A j \in ValueAnswers : j = Len(call.invoked)
        /\ (1 \in ValueAnswers) => call.invoked = <<api_functions[1]>>
        /\ \A j, m \in 1..Len(call.invoked) : call.invoked[j] = call.invoked[m] => j = m
        /\ (ValueAnswers # {}) => pc # "lookup"

\* C2 witness: the first provider succeeded and the iteration is over
C2_Witness ==
    /\ CallReturned /\ call.mode = "auto"
    /\ call.responses = <<Bal(0)>>
    /\ call.invoked = <<"blockchain">>
    /\ pc = "loop"

\* the check_balance calls that have returned
CallsReturned == IF pc = "lookup" THEN callCount - 1 ELSE callCount

\* how many of the calls 1..n fall on registry position p when the k-th call
\* takes position (k-1) mod P
CyclicShare(p, n) ==
    Cardinality({k \in 1..n : ((k - 1) % Len(api_functions)) + 1 = p})

\* C3: in rotate mode the k-th check_balance call of a session invokes the
\* provider at registration position (k-1) mod P, whatever the earlier calls
\* answered, so after N calls each provider has been used floor(N/P) or
\* ceil(N/P) times.
C3_RotateIsCyclic ==
    api_type = "rotate" =>
        /\ CallReturned =>
              call.invoked = <<api_functions[((callCount - 1) % Len(api_functions)) + 1]>>
        /\ \A p \in ProviderIdx :
              /\ useCount[p] = CyclicShare(p, CallsReturned)
              /\ useCount[p] \in { CallsReturned \div Len(api_functions),
                                   (CallsReturned + Len(api_functions) - 1)
                                       \div Len(api_functions) }

\* C3 witness: more calls than providers, each of them failed (no sleep was
\* reached), and the rotation is back at the first provider
C3_Witness ==
    /\ api_type = "rotate" /\ delay >= 0
    /\ CallReturned /\ pc = "loop"
    /\ callCount = Len(api_functions) + 1
    /\ sleepCount = 0
    /\ call.invoked = <<api_functions[1]>>

\* C4: in rotate mode a call invokes exactly one provider; if that provider
\* raises or answers None the call's result is None and no other provider is
\* tried.
C4_RotateNoFallback ==
    (call.made /\ call.mode = "rotate") =>
        /\ Len(call.invoked) <= 1
        /\ call.result.returns <=> Len(call.invoked) = 1
        /\ (CallReturned /\ call.responses[1].kind \in {"raise", "none"}) =>
              call.result.balance = None

\* C4 witness: the provider under the cursor raised and the iteration is over
C4_Witness ==
    /\ CallReturned /\ call.mode = "rotate"
    /\ call.responses = <<Raise>>
    /\ call.result.balance = None
    /\ pc = "loop"

\* C5: in auto mode, when every provider raised or answered None, the call
\* returns (None, "unknown"), the iteration adds no record (neither to
\* results nor to a file), and the loop goes on with the next line.
C5_AutoAllFailSkipsKey ==
    [][ (api_type = "auto" /\ pc = "lookup" /\ pc' # "lookup"
           /\ \A j \in 1..Len(call'.responses) : call'.responses[j].kind # "value")
        => /\ call'.result = Return(None, "unknown")
           /\ Len(call'.invoked) = Len(api_functions)
           /\ results' = results
           /\ files' = files
           /\ pc' = "loop" /\ ~aborted' /\ i' = i ]_vars

\* C5 witness: every provider failed for a key and another line is to come
C5_Witness ==
    /\ CallReturned /\ call.mode = "auto"
    /\ call.result = Return(None, "unknown")
    /\ Len(call.invoked) = Len(api_functions)
    /\ pc = "loop" /\ i < total_keys

UnknownModeCall ==
    /\ CallReturned
    /\ call.mode \notin {"auto", "rotate"}
    /\ \A k \in ProviderIdx : api_functions[k] # call.mode

\* C6 as stated: with a mode that is neither auto, rotate nor a registered
\* name, the call queries blockchain once and reports the name "blockchain"
\* with its result, without raising.
C6_UnknownModeAlwaysNamesDefault ==
    UnknownModeCall =>
        /\ call.invoked = <<"blockchain">>
        /\ call.result.api_used = "blockchain"
        /\ ~call.result.raised

\* C6 amended: with such a mode the call queries blockchain exactly once and
\* never raises; when the provider returns (a balance or None) the call
\* returns that answer with the name "blockchain", and when the provider
\* raises the call returns (None, "unknown").
C6_UnknownModeFallsBackToDefault ==
    UnknownModeCall =>
        /\ call.invoked = <<"blockchain">>
        /\ ~call.result.raised
        /\ call.result =
              IF call.responses[1].kind = "raise"
                 THEN Return(None, "unknown")
                 ELSE Return(call.responses[1], "blockchain")

\* C6 witness: an unregistered mode, and blockchain's balance came back
C6_Witness ==
    /\ UnknownModeCall
    /\ call.mode = "nosuchapi"
    /\ call.result = Return(Bal(1), "blockchain")

\* C7: check_balance never raises: in every mode and whatever the providers
\* do, no exception leaves the call, and what it returns is a pair of a
\* balance or None and a provider name or "unknown".
C7_CheckBalanceNeverRaises ==
    call.made =>
        /\ ~call.result.raised
        /\ call.result.returns =>
              /\ call.result.balance \in {None} \cup {Bal(b) : b \in Balances}
              /\ call.result.api_used \in
                    {api_functions[k] : k \in ProviderIdx} \cup {"unknown"}

\* C7 witness: the pinned provider raised and the call returned (None, "unknown")
C7_Witness ==
    /\ CallReturned /\ call.mode = "blockchain"
    /\ call.responses = <<Raise>>
    /\ call.result = Return(None, "unknown")
    /\ pc = "loop"

(***************************************************************************)
(* Properties of the scan loop.                                            *)
(***************************************************************************)
\* C8: once the input file is open, no failure while a line is processed
\* ends the scan: when process_keys returns, every line of the range has
\* been processed.
C8_NoLineFailureEndsScan ==
    (pc = "done" /\ input_file = "ok") => i = total_keys

\* C9: an iteration that extracted a key and looked up its balance sleeps the
\* configured delay, whatever the lookup returned (a positive balance, zero,
\* or None).  (Stated for the runs whose delay time.sleep accepts.)
C9_SleepAfterEveryLookup ==
    (step.lookup /\ delay >= 0) => step.slept

\* C10: with a progress callback installed and a non-empty range, no more
\* than 10 lines are processed between two callbacks, a callback with
\* processed_count = total_count has occurred when the run returns, and every
\* hit has its found-key callback, whatever the lines hold.  (Stated for the
\* runs no exception cuts short.)
C10_ProgressCallbacks ==
    (progress_callback /\ input_file = "ok" /\ delay >= 0) =>
        /\ i - lastCbAt <= ProgressEvery
        /\ (pc = "done" /\ total_keys > 0) => finalCb
        /\ pc # "lookup" => foundCbCount = Len(results)

(***************************************************************************)
(* Properties of the found records.                                        *)
(***************************************************************************)
\* C11: a record is added to the result list exactly when the iteration of a
\* line with an extracted key gets a balance that is not None and is greater
\* than zero: such an iteration appends one record, carrying that key and
\* that balance, and no other step (a zero balance, None, a line without a
\* key, an empty line, a comment) changes the list.
C11_RecordIffPositiveBalance ==
    [][ /\ (results' # results) <=>
              (/\ pc = "lookup" /\ pc' # "lookup"
               /\ step.extracted
               /\ call'.result.balance.kind = "value"
               /\ call'.result.balance.value > 0)
        /\ (results' # results) =>
              /\ Len(results') = Len(results) + 1
              /\ SubSeq(results', 1, Len(results)) = results
              /\ results'[Len(results')].private_key = step.key
              /\ results'[Len(results')].balance = call'.result.balance.value
              /\ results'[Len(results')].balance > 0 ]_vars

\* C11 witness: three lines processed, one of them without a lookup, one with
\* a zero balance and the last with a positive one: exactly one record
C11_Witness ==
    /\ delay >= 0 /\ total_keys = 3 /\ i = 3 /\ pc = "loop"
    /\ callCount = 2 /\ sleepCount = 2
    /\ step.hit
    /\ Len(results) = 1 /\ results[1].balance > 0

\* the data rows of all output files
RowsOnDisk ==
    UNION { {files[name].rows[k] : k \in 1..Len(files[name].rows)} : name \in FileNames }

\* C12: every record of the in-memory result list (and with it every record
\* handed to the found-key callback) has its row in an output file, at every
\* point of the run.
C12_EveryRecordHasRow ==
    \A j \in 1..Len(results) :
        DataRow(results[j].private_key, results[j].address, results[j].balance,
                results[j].api_used) \in RowsOnDisk

\* C13: the result list never holds two records for the same address.
C13_OneRecordPerAddress ==
    \A j, m \in 1..Len(results) :
        results[j].address = results[m].address => j = m

(***************************************************************************)
(* Properties of the result sink.                                          *)
(***************************************************************************)
\* C14: no step of the sink removes or overwrites a data row that is already
\* in an output file, the numbered files an earlier session left included:
\* every data row stays at its place in its file.
C14_AppendOnly ==
    [][ \A name \in FileNames :
          \A k \in 1..Len(files[name].rows) :
             ~files[name].rows[k].hdr =>
                /\ files'[name].exists
                /\ Len(files'[name].rows) >= k
                /\ files'[name].rows[k] = files[name].rows[k] ]_vars

\* C15: every output file that exists holds the header exactly once, as its
\* first line.
C15_HeaderExactlyOnce ==
    \A name \in FileNames :
        files[name].exists =>
            /\ Len(files[name].rows) >= 1
            /\ files[name].rows[1] = Header
            /\ \A k \in 2..Len(files[name].rows) : ~files[name].rows[k].hdr

\* the sizes of a file holding the header only, and of one data row
HeaderOnlySize == FileSize([exists |-> TRUE, rows |-> <<Header>>])

OneRowSize == FileSize([exists |-> TRUE, rows |-> <<PriorRow>>])

\* C16 as stated: under every size limit, the file a row has just been saved
\* to is no larger than the limit plus the size of one row.
C16_NeverOverLimitByMoreThanARow ==
    step.saved => FileSize(files[output_file]) <= max_file_size_bytes + OneRowSize

\* C16 amended: under every size limit that is at least the size of the
\* header line, no output file (of this session or left by an earlier one) is
\* ever larger than the limit plus the size of one row.
C16_NeverOverLimitAboveHeaderSize ==
    max_file_size_bytes >= HeaderOnlySize =>
        \A name \in FileNames :
            files[name].exists =>
                FileSize(files[name]) <= max_file_size_bytes + OneRowSize

\* C16 witness: under such a limit the session has just saved a row to a file
\* which now is one row over the limit less one
C16_Witness ==
    /\ max_file_size_bytes > HeaderOnlySize
    /\ step.saved /\ pc = "loop"
    /\ files[output_file].exists
    /\ FileSize(files[output_file]) = max_file_size_bytes - 1 + OneRowSize

\* the current output file has reached the size limit
Crossed == files[output_file].exists /\ Len(files[output_file].rows) >= max_file_size_bytes

\* the data row of the record the session found last
LastRow ==
    LET rec == results[Len(results)]
    IN  DataRow(rec.private_key, rec.address, rec.balance, rec.api_used)

\* C17: the size limit is checked at every save.  A save that succeeds while
\* the current file is below the limit appends its row to that file; one that
\* succeeds once the current file has reached the limit moves the session to
\* another file, which then holds the header and that row, and leaves every
\* other file as it was, so that the run ends with the earlier file and the
\* new one.
C17_RolloverOnCrossing ==
    [][ (pc = "lookup" /\ step'.saved) =>
          IF Crossed
             THEN /\ output_file' # output_file
                  /\ current_file_index' = current_file_index + 1
                  /\ files'[output_file'] = [exists |-> TRUE, rows |-> <<Header, LastRow'>>]
                  /\ \A name \in FileNames \ {output_file'} : files'[name] = files[name]
                  /\ files'[output_file].exists
             ELSE /\ output_file' = output_file
                  /\ current_file_index' = current_file_index
                  /\ files'[output_file].exists
                  /\ files'[output_file].rows = Append(files[output_file].rows, LastRow')
                  /\ \A name \in FileNames \ {output_file} : files'[name] = files[name] ]_vars

\* C17 witness: a run of two hits under a limit of two lines has ended; the
\* first hit filled the first file, the second went to a new file, and both
\* files begin with the header
C17_Witness ==
    /\ pc = "done" /\ max_file_size_bytes = 2 /\ Len(results) = 2
    /\ step.saved
    /\ current_file_index = 1 /\ output_file = "results_01.csv"
    /\ files["results.csv"].rows = <<Header, LastRow>>
    /\ files["results_01.csv"].rows = <<Header, LastRow>>

\* the names the rollovers of a session select, in order
RolloverNames ==
    << "results_01.csv", "results_02.csv", "results_03.csv", "results_04.csv",
       "results_05.csv", "results_06.csv" >>

\* the names of the backup file, one for each second of the clock
BackupNames == {"found_balances_1700000000.txt", "found_balances_1700000001.txt"}

\* C18: the rollover index goes up by exactly one at every rollover and at no
\* other step, and the k-th rollover of a session selects the template name
\* with _k in two digits before the extension, whatever the current file is
\* called; so no name is selected twice.  (When init_output_file rolls over
\* and then cannot create the file it selected, it leaves that name for the
\* backup file.)
C18_RolloverNaming ==
    [][ /\ current_file_index' \in {current_file_index, current_file_index + 1}
        /\ (pc = "lookup" /\ step'.hit) =>
              (current_file_index' = current_file_index + 1 <=> Crossed)
        /\ current_file_index' # current_file_index =>
              \/ output_file' = RolloverNames[current_file_index']
              \/ pc = "init" /\ output_file' \in BackupNames
        /\ (output_file' # output_file /\ pc # "init") =>
              current_file_index' # current_file_index ]_vars

\* C18 witness: the third rollover of a session selected results_03.csv
C18_Witness ==
    /\ current_file_index = 3
    /\ output_file = "results_03.csv"
    /\ step.saved

\* the names derived from the output template
PrimaryNames == {"results.csv"} \cup {RolloverNames[k] : k \in 1..Len(RolloverNames)}

\* C19 as stated: when init_output_file has left the primary location for a
\* backup file it could write, the session's output is one fixed name, the
\* same whenever that happens, the backup file holds the header, and the call
\* reported success.
C19_FallbackToFixedName ==
    (pc = "open" /\ output_file \notin PrimaryNames /\ files[output_file].exists) =>
        /\ output_file = BackupName(CHOOSE t \in Times : TRUE)
        /\ files[output_file].rows = <<Header>>
        /\ init_ok

\* C19 amended: init_output_file either ends on a file of the primary
\* location that exists, reporting success, or, when that file cannot be
\* created, switches the session's output to the backup name of the current
\* second; it then writes the header there and reports success, or, when the
\* backup file cannot be written either, writes nothing and reports failure.
C19_FallbackToTimestampedName ==
    [][ pc = "init" =>
          \/ /\ output_file' \in PrimaryNames
             /\ files'[output_file'].exists
             /\ init_ok'
          \/ /\ output_file' \in BackupNames
             /\ ~files'[IF current_file_index' = current_file_index
                           THEN output_file
                           ELSE RolloverNames[current_file_index']].exists
             /\ IF init_ok'
                   THEN files' = [files EXCEPT ![output_file'] =
                                     [exists |-> TRUE, rows |-> <<Header>>]]
                   ELSE files' = files ]_vars

\* C19 witness: the primary file could not be created, the session's output
\* is the backup file of the later second, it holds the header, and
\* init_output_file reported success
C19_Witness ==
    /\ pc = "open"
    /\ ~files["results.csv"].exists
    /\ output_file = "found_balances_1700000001.txt"
    /\ files[output_file].rows = <<Header>>
    /\ init_ok

\* C20: an iteration that found a positive balance leaves the row of its
\* record in an output file, also when the append to the current output
\* file failed.
C20_FailedAppendRecovered ==
    [][ (pc = "lookup" /\ step'.hit) => LastRow' \in RowsOnDisk' ]_vars

(***************************************************************************)
(* Properties of run() when a file cannot be used.                         *)
(***************************************************************************)
\* C21: when init_output_file can create neither the primary file nor the
\* backup file it writes nothing and returns False, no exception leaves it,
\* and run() goes on into process_keys: the loop takes every line of the
\* range, and every positive balance still adds its record to the list that
\* run() returns.  (The loop part is stated for the runs whose delay
\* time.sleep accepts.)
C21_ScanRunsWithoutOutputFile ==
    [][ /\ (pc = "init" /\ ~init_ok') =>
              /\ pc' = "open" /\ ~aborted'
              /\ files' = files
              /\ ~files'[output_file'].exists
        /\ (~init_ok' /\ pc' = "done" /\ input_file = "ok" /\ delay >= 0) =>
              (i' = total_keys' /\ ~aborted')
        /\ (~init_ok /\ pc = "lookup" /\ pc' # "lookup"
              /\ call'.result.balance.kind = "value"
              /\ call'.result.balance.value > 0) =>
              /\ Len(results') = Len(results) + 1
              /\ results'[Len(results')].private_key = step.key ]_vars

\* C21 witness: init_output_file failed, the run is over, every line of a
\* file of three lines was taken and two hits are in the list
C21_Witness ==
    /\ pc = "done" /\ ~init_ok /\ ~aborted
    /\ total_keys = 3 /\ i = 3
    /\ Len(results) = 2

\* C22: when the input file is missing or cannot be read, run() returns an
\* empty list without an iteration of the loop: no check_balance call, no
\* provider invocation, no callback, no sleep, and no data row in a file.
C22_NoInputNoWork ==
    input_file # "ok" =>
        /\ pc \in {"init", "open", "done"}
        /\ results = << >>
        /\ i = 0
        /\ callCount = 0 /\ \A k \in ProviderIdx : useCount[k] = 0
        /\ lastCbAt = 0 /\ ~finalCb /\ foundCbCount = 0
        /\ sleepCount = 0
        /\ RowsOnDisk \subseteq {Header}
        /\ (pc = "done" => aborted = (input_file = "unreadable"))

\* C22 witness: the input file could not be read, process_keys caught the
\* exception and run() has returned; the output file holds its header only
C22_Witness ==
    /\ pc = "done" /\ input_file = "unreadable" /\ aborted
    /\ results = << >>
    /\ files[output_file].rows = <<Header>>

(***************************************************************************)
(* Properties of the web job.                                              *)
(***************************************************************************)
\* C23: once a cancel request has been accepted while the job's session is
\* in its loop (the job's status is cancelled), the session invokes no
\* further provider and writes nothing further to its output files.
C23_CancelStopsTheScan ==
    [][ (status = "cancelled" /\ pc \in {"loop", "lookup"}) =>
            (useCount' = useCount /\ files' = files) ]_vars

\* C24: a status of completed, failed or cancelled is final.
C24_TerminalStatusIsFinal ==
    [][ (status \in {"completed", "failed", "cancelled"}) => (status' = status) ]_vars

(***************************************************************************)
(* Properties of concurrent sessions.                                      *)
(***************************************************************************)
\* C25: two sessions with distinct output paths do not touch each other's
\* state: no step of the second session changes the file the first session
\* has created and is writing to, and no step of the first changes the file
\* of the second.
C25_SessionsShareNothing ==
    [][ /\ (peer' # peer /\ files[output_file].exists) =>
              (files'[output_file] = files[output_file])
        /\ (peer' = peer /\ peer.pc = "scan" /\ files[peer.output_file].exists) =>
              (files'[peer.output_file] = files[peer.output_file]) ]_vars

(***************************************************************************)
(* Properties of the extractor.                                            *)
(***************************************************************************)
\* the position of the first candidate of a list that privkey_to_pubkey
\* accepts (0: none)
FirstOk(cands) ==
    IF \E j \in 1..Len(cands) : privkey_to_pubkey(cands[j])
       THEN CHOOSE j \in 1..Len(cands) :
               /\ privkey_to_pubkey(cands[j])
               /\ \A m \in 1..(j - 1) : ~privkey_to_pubkey(cands[m])
       ELSE 0

\* C26: the extractor returns the first WIF match that derives; if no WIF
\* match derives, the first hex match that derives; if none of those
\* either, the stripped line if it derives; and (False, "") exactly when
\* none of the WIF matches, of the hex matches and the stripped line derives.
C26_ExtractionPriority ==
    extraction.done =>
        LET wif == findall("wif", text, 1)
            hex == findall("hex", text, 1)
        IN  IF FirstOk(wif) > 0
               THEN extraction.valid /\ extraction.key = wif[FirstOk(wif)]
            ELSE IF FirstOk(hex) > 0
               THEN extraction.valid /\ extraction.key = hex[FirstOk(hex)]
            ELSE IF privkey_to_pubkey(strip(text))
               THEN extraction.valid /\ extraction.key = strip(text)
            ELSE ~extraction.valid

\* C26 witness: a line that holds a WIF match and a hex match which both
\* derive; the WIF match was returned
C26_Witness ==
    /\ extraction.done
    /\ text = <<"5", "a", "a", "5", "a">>
    /\ extraction.valid
    /\ extraction.key = <<"5", "a", "a", "5">>

\* the places (start, length) at which a line holds a well-formed WIF or hex
\* key that derives
EmbeddedKeys ==
    { p \in (1..Len(text)) \X (1..Len(text)) :
        /\ p[1] + p[2] - 1 <= Len(text)
        /\ LET k == SubSeq(text, p[1], p[1] + p[2] - 1)
           IN  (WifShaped(k) \/ HexShaped(k)) /\ privkey_to_pubkey(k) }

\* C27: for a line that holds one well-formed key that derives, at whatever
\* place and whatever the characters around it, the extractor returns that
\* key.
C27_EmbeddedKeyIsReturned ==
    (extraction.done /\ Cardinality(EmbeddedKeys) = 1) =>
        LET p == CHOOSE q \in EmbeddedKeys : TRUE
        IN  /\ extraction.valid
            /\ extraction.key = SubSeq(text, p[1], p[1] + p[2] - 1)

\* C28: a key the extractor reports as valid derives: whenever the scan loop
\* goes on with an extracted key, get_address_from_private_key succeeds on
\* it and the loop reaches check_balance with the key's address.
C28_ExtractedKeyDerives ==
    step.extracted =>
        /\ Derives(step.key)
        /\ call.made
        /\ ~(aborted /\ ~step.lookup)

\* C28 witness: the loop has extracted a key and is at check_balance
C28_Witness ==
    pc = "lookup" /\ step.extracted /\ step.key = 1 /\ call.made /\ i = 2

\* C29: a line that is empty after strip(), or starts with '#', ends its
\* iteration at once: no extraction, no check_balance call and no provider
\* invocation, no record, no row, no sleep.
C29_SkippedLineDoesNothing ==
    [][ (i' = i + 1 /\ step'.text \in {"empty", "comment"}) =>
            /\ ~step'.extracted
            /\ pc' = "loop"
            /\ call' = NoCall
            /\ callCount' = callCount
            /\ useCount' = useCount
            /\ results' = results
            /\ files' = files
            /\ sleepCount' = sleepCount ]_vars

\* C29 witness: a comment line skipped right after a line whose key was found
\* with a balance
C29_Witness ==
    /\ step.text = "comment"
    /\ i = 2
    /\ pc = "loop"
    /\ Len(results) = 1
    /\ sleepCount = 1
    /\ callCount = 1

(***************************************************************************)
(* Properties of the line range.                                           *)
(***************************************************************************)
\* the indexes j of the input's lines with start_line <= j < end_line, end
\* of file when end_line is unset
HalfOpenRange ==
    { j \in 0..(nLines - 1) :
        start_line <= j /\ (end_line.isNone \/ j < end_line.value) }

\* the indexes of the lines the loop goes through: total_keys lines from the
\* slice's first
LinesToProcess ==
    { SliceIndex(start_line, nLines) + k : k \in 0..(total_keys - 1) }

\* C30: once the input is read, the lines the loop goes through are exactly
\* those with start_line <= index < end_line (end of file when end_line is
\* unset), and the total handed to the progress callback is their number.
C30_HalfOpenLineRange ==
    (pc \in {"loop", "lookup", "done"}) =>
        /\ total_keys = Cardinality(HalfOpenRange)
        /\ LinesToProcess = HalfOpenRange
        /\ i <= total_keys

(***************************************************************************)
(* Properties of the session as a whole.                                   *)
(***************************************************************************)
\* C31: the rotation cursor changes only in a check_balance call of rotate
\* mode, where it moves on by one provider, cyclically; no other mode and
\* no other step (sink initialisation, extraction, append, rollover, the
\* end of the loop) changes it, and nothing sets it back.
C31_CursorFrame ==
    [][ (current_api_index' # current_api_index) =>
            /\ api_type = "rotate"
            /\ pc = "lookup"
            /\ Len(call'.invoked) = Len(call.invoked) + 1
            /\ current_api_index' = (current_api_index + 1) % Len(api_functions) ]_vars

\* C31 witness: a pinned session after two lookups, one of them saved, its
\* cursor where it was at construction
C31_Witness ==
    /\ api_type = api_functions[2]
    /\ callCount = 2
    /\ Len(results) = 1
    /\ files[output_file].exists
    /\ pc = "loop"
    /\ current_api_index = 0

\* the sum of the counts a histogram holds for the names of a set
RECURSIVE SumOfCounts(_, _)
SumOfCounts(stats, names) ==
    IF names = {} THEN 0
    ELSE LET name == CHOOSE n \in names : TRUE
         IN  stats[name] + SumOfCounts(stats, names \ {name})

\* the balances of the first n records, added up
RECURSIVE BalanceOfFirst(_)
BalanceOfFirst(n) ==
    IF n = 0 THEN 0 ELSE BalanceOfFirst(n - 1) + results[n].balance

\* the summary agrees with the records: their number, the sum of their
\* balances, and a histogram whose counts add up to their number
SummaryMatchesRecords ==
    /\ returned.summary.keys_found = Len(results)
    /\ returned.summary.total_balance = BalanceOfFirst(Len(results))
    /\ SumOfCounts(returned.summary.api_stats, DOMAIN returned.summary.api_stats)
          = Len(results)
    /\ \A k \in 1..Len(results) :
          results[k].api_used \in DOMAIN returned.summary.api_stats

\* C32 as stated: at the end of a run the summary agrees with the records
\* and is what run returns to its caller.
C32_SummaryReturned ==
    returned.done => (SummaryMatchesRecords /\ returned.kind = "summary")

\* C32 as the code has it: run returns the list of records; when there is
\* at least one record it first writes a summary to the log that agrees
\* with them, and when there is none it computes no summary.
C32_RecordsReturnedSummaryLogged ==
    returned.done =>
        /\ returned.kind = "records"
        /\ returned.value = results
        /\ returned.summary.logged = (results # << >>)
        /\ returned.summary.logged => SummaryMatchesRecords

\* C32 witness: a run that returned two records found through the same
\* provider
C32_Witness ==
    /\ returned.done
    /\ Len(results) = 2
    /\ results[1].api_used = results[2].api_used
    /\ returned.summary.keys_found = 2

\* C33: run returns in the end, whatever the mode and the input file, given
\* that every provider call and every sleep comes back; on the way the loop
\* only ever moves on to the next line of the range, never back and never
\* past the range.
C33_RunReturns ==
    /\ <>(returned.done)
    /\ [][ i' \in {i, i + 1} /\ i' <= total_keys' ]_vars

\* C33 witness: a run over a file of three lines has returned, each line
\* visited
C33_Witness ==
    /\ returned.done
    /\ total_keys = 3
    /\ i = 3
    /\ callCount = 3
    /\ ~aborted

\* C34: the two checker modules scan alike.  From the same state and on the
\* same answer of a provider, the loop body of the other module (strategy
\* inlined) invokes the provider this module invoked, goes on to a further
\* provider exactly when this one does, leaves the cursor at the same
\* place, appends the same record exactly when this one does, and sleeps
\* exactly when this one does.
C34_ModulesScanAlike ==
    [][ (pc = "lookup" /\ Len(call'.invoked) = Len(call.invoked) + 1) =>
            LET k        == InlinedNextProvider(api_type, current_api_index,
                                                Len(call.invoked))
                response == call'.responses[Len(call'.responses)]
                t        == InlinedStrategy(api_type, k, response)
                line     == InlinedLine(t)
            IN  /\ call'.invoked[Len(call'.invoked)] = api_functions[k]
                /\ current_api_index' = InlinedCursorAfter(api_type, current_api_index)
                /\ (pc' = "lookup") = ~line.ends
                /\ IF line.record
                      THEN results' = Append(results,
                               [private_key |-> step.key,
                                address |-> get_address_from_private_key(step.key),
                                balance |-> t.balance.value,
                                api_used |-> t.api_used])
                      ELSE results' = results
                /\ sleepCount' = sleepCount + (IF line.sleeps /\ delay >= 0 THEN 1 ELSE 0)
                /\ aborted' = (line.sleeps /\ delay < 0) ]_vars

\* C34 witness: an auto-mode scan in which the first provider failed and the
\* second reported a balance, which was recorded under its name
C34_Witness ==
    /\ api_type = "auto"
    /\ pc = "loop"
    /\ call.made
    /\ Len(call.invoked) = 2
    /\ step.hit
    /\ step.slept
    /\ Len(results) = 1
    /\ results[1].api_used = api_functions[2]

\* C35: in every state of a session the rotation cursor is the position of
\* a registered provider: 0 <= current_api_index < len(api_functions), so
\* the provider a rotate-mode lookup takes exists.
C35_CursorInRange ==
    /\ current_api_index \in 0..(Len(api_functions) - 1)
    /\ (api_type = "rotate" /\ pc = "lookup") =>
          NextProvider(api_type, current_api_index, call.invoked) \in ProviderIdx

\* C35 witness: a rotate-mode scan at its third lookup, the cursor having
\* wrapped around once
C35_Witness ==
    /\ api_type = "rotate"
    /\ pc = "lookup"
    /\ callCount = Len(api_functions) + 1
    /\ \A k \in ProviderIdx : useCount[k] = 1
    /\ current_api_index = 0

\* the names of the registry
RegisteredNames == {api_functions[k] : k \in ProviderIdx}

\* C36: a balance that check_balance returns (not None) comes with the name
\* of a registered provider that the call invoked for this address, never
\* with "unknown"; so every record names a registered provider.
C36_BalanceNamesItsProvider ==
    /\ (call.made /\ call.result.returns /\ call.result.balance.kind = "value") =>
          /\ call.result.api_used # "unknown"
          /\ call.result.api_used \in RegisteredNames
          /\ \E n \in 1..Len(call.invoked) : call.invoked[n] = call.result.api_used
    /\ \A n \in 1..Len(results) : results[n].api_used \in RegisteredNames

\* C36 witness: a session configured with a mode that is no provider's name
\* has recorded a key under the default provider's name
C36_Witness ==
    /\ api_type = "nosuchapi"
    /\ call.made
    /\ call.result.returns
    /\ Len(results) = 1
    /\ results[1].api_used = "blockchain"
    /\ call.invoked = <<"blockchain">>

(***************************************************************************)
(* Properties of the web jobs.                                             *)
(***************************************************************************)
\* C37: while the worker thread of a job is still scanning, no request
\* removes the job's entry from running_jobs or its input file.
C37_NoClearUnderRunningScan ==
    [][ (pc \in {"loop", "lookup"}) =>
            (registered' = registered /\ input_file' = input_file) ]_vars

(***************************************************************************)
(* Properties of the order of rows.                                        *)
(***************************************************************************)
\* the data rows of a file, in the order they stand in it
DataRowsOf(name) == SelectSeq(files[name].rows, LAMBDA r : ~r.hdr)

\* the data rows of the session's files from the file of index k on, the
\* files taken in the order of their rollover index
RECURSIVE RowsFrom(_)
RowsFrom(k) ==
    IF k > MaxHits + 1 THEN << >>
    ELSE DataRowsOf(FileName(k)) \o RowsFrom(k + 1)

\* the data rows on disk in the order they were written: the file the
\* session started on (the primary file or a backup file), then the
\* rollover files by their index
RowsInFileOrder ==
    DataRowsOf(FileName(0)) \o DataRowsOf("found_balances_1700000000.txt")
        \o DataRowsOf("found_balances_1700000001.txt") \o RowsFrom(1)

\* the rows of the records, in the order of the result list
RowsOfRecords ==
    [k \in 1..Len(results) |->
        DataRow(results[k].private_key, results[k].address, results[k].balance,
                results[k].api_used)]

\* C38: the data rows stand in the output files in the order of the result
\* list (which is the order of the input lines): the row of an earlier
\* record is in the same file before the row of a later one, or in a file
\* of a lower rollover index.
C38_RowsInRecordOrder == RowsInFileOrder = RowsOfRecords

(***************************************************************************)
(* Properties of the progress callback.                                    *)
(***************************************************************************)
\* C39: from one callback of a run to the next, processed_count and
\* found_count do not decrease; at every callback found_count is the
\* number of records so far, 1 <= processed_count <= total_count, and
\* found_count <= processed_count.
C39_CallbackCountsMonotonic ==
    [][ (lastCb' # lastCb) =>
            /\ lastCb'.processed_count >= lastCb.processed_count
            /\ lastCb'.found_count >= lastCb.found_count
            /\ lastCb'.found_count = Len(results')
            /\ lastCb'.processed_count >= 1
            /\ lastCb'.processed_count <= lastCb'.total_count
            /\ lastCb'.total_count = total_keys
            /\ lastCb'.found_count <= lastCb'.processed_count ]_vars

\* C39 witness: the callback for the second key found, at the last of three
\* lines
C39_Witness ==
    /\ progress_callback
    /\ lastCb.processed_count = 3
    /\ lastCb.total_count = 3
    /\ lastCb.found_count = 2
    /\ foundCbCount = 2

\* C40: the total_keys a job records at upload is not negative and is the
\* total_count the checker works with for the same file and the same
\* start_line and end_line (bounds as the upload form yields them: end_line
\* unset or a number without sign; start_line taken as not negative here).
C40_UploadTotalMatchesScan ==
    (/\ pc \in {"loop", "lookup", "done"}
     /\ start_line >= 0
     /\ (end_line.isNone \/ end_line.value >= 0)) =>
        /\ upload_total_keys(nLines, start_line, end_line) >= 0
        /\ upload_total_keys(nLines, start_line, end_line) = total_keys

====
